---- MODULE Spec2Model ----
(***************************************************************************)
(* Authentication core of the FastAPI backend: the token codec             *)
(* (app/auth/jwt.py), the identity resolver (app/auth/dependencies.py),    *)
(* the user directory operations that issue tokens and flip the active     *)
(* flag (app/services/user.py) and the protected project endpoints         *)
(* (app/api/v1/project.py).                                                 *)
(*                                                                         *)
(* Spec drives requests through the resolver; CodecSpec calls the mint    *)
(* functions and verify_token directly; HasherSpec calls hash_password     *)
(* and verify_password directly.                                           *)
(* ConcSpec runs the resolver for two clients at once; ServiceSpec calls  *)
(* create_user and get_login_user, create_user in its two awaits;          *)
(* RateSpec calls RateLimiter.is_allowed (app/main.py); ProjectSpec calls  *)
(* the project services (app/services/project.py).                         *)
(*                                                                         *)
(* Optional values (Python None / a missing dict key) are sequences of     *)
(* length at most one: <<>> is None, <<v>> is the value v.  Strings that   *)
(* are parsed (the sub claim) are sequences of one-character strings.      *)
(***************************************************************************)
EXTENDS Integers, Sequences, FiniteSets, TLC

\* ------------------------------------------------------------------ bounds
MaxSkew == 1          \* seconds observed past the end of a token lifetime

\* ------------------------------------------------- configuration (Settings)
JwtAccessTokenExpireMinutes == 10080
JwtRefreshTokenExpireHours == 168
JwtAlgorithm == "HS256"
JwtSecretKey == "your-secret-key-change-in-production"

AccessTtl == JwtAccessTokenExpireMinutes * 60
RefreshTtl == JwtRefreshTokenExpireHours * 3600

\* HS256: a 32 byte digest, base64url framed without padding in 43
\* characters of 6 bits; the two low bits of the last character carry no
\* digest bit.
DigestBits == 256
SigChars == 43
CharBits == 6

\* ------------------------------------------------------------ value pools
None == <<>>
Some(v) == <<v>>

Digits == {"0", "1", "2", "3", "4", "5", "6", "7", "8", "9"}
DigitVal == [c \in Digits |->
               CASE c = "0" -> 0 [] c = "1" -> 1 [] c = "2" -> 2 [] c = "3" -> 3
                 [] c = "4" -> 4 [] c = "5" -> 5 [] c = "6" -> 6 [] c = "7" -> 7
                 [] c = "8" -> 8 [] c = "9" -> 9]

\* uuid4 values in the order they are drawn, one hex digit per group
\* (8-4-4-4-12 in the source); the first one is made of decimal digits
\* only.
Uuid4 == << <<"1", "2", "3", "4", "5">>, <<"a", "b", "7", "c", "9">> >>
UuidPool == {Uuid4[i] : i \in 1 .. Len(Uuid4)}
Emails == {"a@x.io", "b@x.io"}
Roles == {"admin", "default_user"}
Passwords == {"pw-one-1", "pw-two-2"}

\* Instants at which the clock is observed: the start, and the end of a
\* lifetime that began at the start with the seconds that follow it.
Instants == {0} \cup (AccessTtl .. AccessTtl + MaxSkew)

\* ------------------------------------------------------------- str / int
\* str(uuid.UUID): the groups joined with hyphens
StrUuid(u) == <<u[1], "-", u[2], "-", u[3], "-", u[4], "-", u[5]>>

RECURSIVE DigitsValue(_)
DigitsValue(s) ==
    IF s = <<>> THEN 0
    ELSE 10 * DigitsValue(SubSeq(s, 1, Len(s) - 1)) + DigitVal[s[Len(s)]]

AllDigits(s) == Len(s) > 0 /\ \A i \in 1 .. Len(s) : s[i] \in Digits

\* int(x) as get_current_user applies it to payload.get("sub"):
\* None raises TypeError, a decimal literal with an optional sign parses,
\* anything else raises ValueError.
IntOf(x) ==
    IF x = None THEN [ok |-> FALSE, err |-> "TypeError", msg |-> "int() argument", val |-> 0]
    ELSE LET s == x[1]
             signed == Len(s) > 0 /\ s[1] \in {"-", "+"}
             body == IF signed THEN Tail(s) ELSE s
         IN  IF AllDigits(body)
             THEN [ok |-> TRUE, err |-> "", msg |-> "",
                   val |-> IF signed /\ s[1] = "-" THEN 0 - DigitsValue(body)
                           ELSE DigitsValue(body)]
             ELSE [ok |-> FALSE, err |-> "ValueError", msg |-> "invalid literal for int()", val |-> 0]

\* ------------------------------------------------------------ token codec
\* HMAC digest of the signing input under a key: two digests are equal
\* exactly when key, header and claims are.
Hmac(key, alg, claims) == [key |-> key, alg |-> alg, claims |-> claims]

\* A signature segment is the base64url text of a digest, kept as the
\* digest it was produced from and the set of bit positions of the text
\* (0 .. SigChars * CharBits - 1) that were flipped since.
B64UrlEncode(digest) == [digest |-> digest, flipped |-> {}]

\* Decoding keeps the first DigestBits bits of the text and discards the
\* rest of the last character.
B64UrlDecode(seg) ==
    [digest |-> seg.digest, flipped |-> {b \in seg.flipped : b < DigestBits}]

\* jwt.encode: header.payload.signature
JwtEncode(claims, key, alg) ==
    [segs |-> 3, alg |-> alg, claims |-> claims,
     sig |-> B64UrlEncode(Hmac(key, alg, claims))]

\* Caller supplied claims: every key optional.
Data(sub, role, type) == [sub |-> sub, role |-> role, type |-> type]

\* Values a caller puts under a key: a str, an object that has a .value
\* attribute (an Enum member), a datetime (held as the decimal text of
\* its seconds after the epoch, UTC).
Str(s) == [py |-> "str", v |-> s]
EnumMember(value) == [py |-> "Enum", v |-> value]
DateTime(t) == [py |-> "datetime", v |-> ToString(t)]

\* datetime.isoformat()
IsoFormat(secs) ==
    CASE secs = "0" -> "1970-01-01T00:00:00+00:00"
      [] secs = ToString(AccessTtl) -> "1970-01-08T00:00:00+00:00"

\* variant: a datetime value is left out of the claims
Normalize_NoDatetime(x) ==
    IF x = None THEN None
    ELSE IF x[1].py = "Enum" THEN Some(x[1].v)
    ELSE IF x[1].py = "datetime" THEN None
    ELSE Some(x[1].v)

\* the loop over to_encode.items(): a value with a .value attribute is
\* replaced by it, a datetime by its ISO text, any other value is kept
Normalize(x) ==
    IF x = None THEN None
    ELSE IF x[1].py = "Enum" THEN Some(x[1].v)
    ELSE IF x[1].py = "datetime" THEN Some(IsoFormat(x[1].v))
    ELSE Some(x[1].v)

\* create_access_token(data, expires_delta) with the clock read as t1 for
\* exp and as t2 for iat.  expires_delta is None or a number of seconds;
\* a zero timedelta is falsy and takes the default.
create_access_token(data, expires_delta, t1, t2) ==
    LET delta == IF expires_delta = None \/ expires_delta = Some(0)
                 THEN AccessTtl ELSE expires_delta[1]
        to_encode == [sub |-> Normalize(data.sub), role |-> Normalize(data.role),
                      type |-> Normalize(data.type),
                      exp |-> Some(t1 + delta), iat |-> Some(t2)]
    IN  JwtEncode(to_encode, JwtSecretKey, JwtAlgorithm)

\* variant: the type key of the caller is kept when there is one
create_refresh_token_CallerType(data, t1, t2) ==
    LET to_encode == [sub |-> Normalize(data.sub), role |-> Normalize(data.role),
                      type |-> IF data.type = None THEN Some("refresh")
                               ELSE Normalize(data.type),
                      exp |-> Some(t1 + RefreshTtl), iat |-> Some(t2)]
    IN  JwtEncode(to_encode, JwtSecretKey, JwtAlgorithm)

\* create_refresh_token(data): exp, iat and type are written over whatever
\* the caller supplied under these keys
create_refresh_token(data, t1, t2) ==
    LET to_encode == [sub |-> Normalize(data.sub), role |-> Normalize(data.role),
                      type |-> Some("refresh"),
                      exp |-> Some(t1 + RefreshTtl), iat |-> Some(t2)]
    IN  JwtEncode(to_encode, JwtSecretKey, JwtAlgorithm)

\* variant: the expiry is examined before the signature
JwtDecode_ExpiryFirst(token, secret, t) ==
    IF token.segs # 3
      THEN [ok |-> FALSE, err |-> "JWTError", payload |-> None]
    ELSE IF token.claims.exp # None /\ token.claims.exp[1] < t
      THEN [ok |-> FALSE, err |-> "ExpiredSignatureError", payload |-> None]
    ELSE IF token.alg # JwtAlgorithm
      THEN [ok |-> FALSE, err |-> "JWTError", payload |-> None]
    ELSE IF B64UrlDecode(token.sig) # B64UrlDecode(B64UrlEncode(Hmac(secret, token.alg, token.claims)))
      THEN [ok |-> FALSE, err |-> "JWTError", payload |-> None]
    ELSE [ok |-> TRUE, err |-> "", payload |-> Some(token.claims)]

\* jose.jwt.decode(token, secret, algorithms=[alg]) at clock t: structure,
\* algorithm and signature failures raise JWTError; a verified token
\* whose exp is before t raises ExpiredSignatureError.
JwtDecode(token, secret, t) ==
    IF token.segs # 3
      THEN [ok |-> FALSE, err |-> "JWTError", payload |-> None]
    ELSE IF token.alg # JwtAlgorithm
      THEN [ok |-> FALSE, err |-> "JWTError", payload |-> None]
    ELSE IF B64UrlDecode(token.sig) # B64UrlDecode(B64UrlEncode(Hmac(secret, token.alg, token.claims)))
      THEN [ok |-> FALSE, err |-> "JWTError", payload |-> None]
    ELSE IF token.claims.exp # None /\ token.claims.exp[1] < t
      THEN [ok |-> FALSE, err |-> "ExpiredSignatureError", payload |-> None]
    ELSE [ok |-> TRUE, err |-> "", payload |-> Some(token.claims)]

\* a value that Python takes as true: not None and not the empty string
Truthy(x) == x # None /\ x # Some("")

\* variant: only a type claim that is present is compared
verify_token_PresentTypeOnly(token, expected_type, t) ==
    LET d == JwtDecode(token, JwtSecretKey, t)
    IN  IF ~d.ok
        THEN IF d.err = "ExpiredSignatureError"
             THEN [ok |-> FALSE, err |-> "ValueError", msg |-> "Token has expired", payload |-> None]
             ELSE [ok |-> FALSE, err |-> d.err, msg |-> "", payload |-> None]
        ELSE IF Truthy(expected_type) /\ d.payload[1].type # None
                  /\ d.payload[1].type # expected_type
             THEN [ok |-> FALSE, err |-> "ValueError", msg |-> "Invalid token type", payload |-> None]
             ELSE [ok |-> TRUE, err |-> "", msg |-> "", payload |-> d.payload]

\* verify_token(token, expected_type=...) at clock t.  The expiry error is
\* re-raised as ValueError, a type mismatch is raised as ValueError, every
\* other decode error propagates unchanged.  The type is compared only
\* when expected_type is truthy.
verify_token(token, expected_type, t) ==
    LET d == JwtDecode(token, JwtSecretKey, t)
    IN  IF ~d.ok
        THEN IF d.err = "ExpiredSignatureError"
             THEN [ok |-> FALSE, err |-> "ValueError", msg |-> "Token has expired", payload |-> None]
             ELSE [ok |-> FALSE, err |-> d.err, msg |-> "", payload |-> None]
        ELSE IF Truthy(expected_type) /\ d.payload[1].type # expected_type
             THEN [ok |-> FALSE, err |-> "ValueError", msg |-> "Invalid token type", payload |-> None]
             ELSE [ok |-> TRUE, err |-> "", msg |-> "", payload |-> d.payload]

\* ------------------------------------------------------------ exceptions
NoOutcome == [kind |-> "none", code |-> "", status |-> 0]
Returned == [kind |-> "ok", code |-> "", status |-> 200]
\* AppException(code=..., status_code=...)
AppException(code, status) == [kind |-> "AppException", code |-> code, status |-> status]
\* fastapi.HTTPException raised by a security scheme
HTTPException(detail, status) == [kind |-> "HTTPException", code |-> detail, status |-> status]
\* an exception that is not an HTTPException leaves the application as a
\* 500 response; code keeps its message
Unhandled(cls, msg) == [kind |-> cls, code |-> msg, status |-> 500]

AuthCodes == {"MISSING_CREDENTIALS", "TOKEN_EXPIRED", "INVALID_TOKEN",
              "USER_NOT_FOUND", "USER_INACTIVE"}

\* ---------------------------------------------------- credential extraction
Lower(scheme) == IF scheme = "Bearer" THEN "bearer" ELSE IF scheme = "Basic" THEN "basic" ELSE scheme

\* Both schemes are constructed with the default auto_error=True.
HttpBearerAutoError == TRUE
OAuth2AutoError == TRUE

\* status of the "Not authenticated" error of HTTPBearer: 403 or 401
\* depending on the FastAPI release installed
NotAuthenticatedStatus == {401, 403}

\* An Authorization header is None or Some([scheme, param]); param is None
\* when nothing follows the scheme.
\* security = HTTPBearer(): the credentials, None, or an error
HTTPBearer(hdr, st) ==
    IF hdr = None \/ hdr[1].param = None
    THEN IF HttpBearerAutoError
         THEN [raised |-> TRUE, exc |-> HTTPException("Not authenticated", st), val |-> None]
         ELSE [raised |-> FALSE, exc |-> NoOutcome, val |-> None]
    ELSE IF Lower(hdr[1].scheme) # "bearer"
    THEN IF HttpBearerAutoError
         THEN [raised |-> TRUE, exc |-> HTTPException("Invalid authentication credentials", st), val |-> None]
         ELSE [raised |-> FALSE, exc |-> NoOutcome, val |-> None]
    ELSE [raised |-> FALSE, exc |-> NoOutcome, val |-> hdr[1].param]

\* oauth2_scheme = OAuth2PasswordBearer(tokenUrl="/token")
OAuth2PasswordBearer(hdr) ==
    IF hdr = None \/ Lower(hdr[1].scheme) # "bearer"
    THEN IF OAuth2AutoError
         THEN [raised |-> TRUE, exc |-> HTTPException("Not authenticated", 401), val |-> None]
         ELSE [raised |-> FALSE, exc |-> NoOutcome, val |-> None]
    ELSE [raised |-> FALSE, exc |-> NoOutcome, val |-> hdr[1].param]

\* get_current_user, choice of the token: credentials.credentials when
\* non-empty, else oauth_token when non-empty, else None
SelectToken(credentials, oauth_token) ==
    IF credentials # None THEN credentials
    ELSE IF oauth_token # None THEN oauth_token
    ELSE None

\* get_current_user from its entry to the await of the directory query,
\* at clock t: what it raises, or the parsed user id and the role claim.
GcuBeforeLookup(credentials, oauth_token, t) ==
    LET token == SelectToken(credentials, oauth_token)
        base == [raised |-> TRUE, exc |-> NoOutcome, verified |-> 0,
                 user_id |-> 0, role |-> None]
    IN  IF token = None
        THEN [base EXCEPT !.exc = AppException("MISSING_CREDENTIALS", 401)]
        ELSE LET v == verify_token(token[1], None, t)
             IN  IF ~v.ok
                 THEN IF v.err = "ExpiredSignatureError"
                      THEN [base EXCEPT !.exc = AppException("TOKEN_EXPIRED", 401), !.verified = 1]
                      ELSE IF v.err = "JWTError"
                      THEN [base EXCEPT !.exc = AppException("INVALID_TOKEN", 401), !.verified = 1]
                      ELSE [base EXCEPT !.exc = Unhandled(v.err, v.msg), !.verified = 1]
                 ELSE LET n == IntOf(v.payload[1].sub)
                      IN  IF ~n.ok
                          THEN [base EXCEPT !.exc = Unhandled(n.err, n.msg), !.verified = 1]
                          ELSE [raised |-> FALSE, exc |-> NoOutcome, verified |-> 1,
                                user_id |-> n.val, role |-> v.payload[1].role]

\* variant: the stored role is preferred to the role claim
EffectiveRole_StoredFirst(role, user) ==
    IF user.role # "" THEN user.role ELSE role[1]

\* role or user.role: None and the empty string are falsy
EffectiveRole(role, user) ==
    IF Truthy(role) THEN role[1] ELSE user.role

\* ------------------------------------------------------------------ state
Clients == {"c1", "c2"}
\* clients that send requests one at a time
Serial == {"c1"}

VARIABLES
    now,      \* the clock, in whole seconds
    users,    \* the users table: users[i] is the row with primary key i
    held,     \* per client: the token it holds (None or Some(record))
    req,      \* per client: its request in flight and that request's state
    codec,    \* the last direct call of a mint function, and of verify_token on its token
    hasher,   \* the direct calls of hash_password and verify_password
    svc,      \* per client: its call of create_user or get_login_user
    limiter,  \* the RateLimiter instance, its clock and the calls made to it
    proj      \* the projects table and, per client, its create_project call

vars == <<now, users, held, req, codec, hasher, svc, limiter, proj>>

\* pc of a request: "idle" (none in flight), "lookup" (get_current_user
\* suspended at the directory query), "authed" (get_current_user returned,
\* endpoint body not yet run), "handled", "failed"
IdleReq ==
    [pc |-> "idle", hdr |-> None, tverify |-> 0, user_id |-> 0, role |-> None,
     outcome |-> NoOutcome, row |-> None,
     current_user |-> None, current_role |-> None,
     nverify |-> 0, nlookup |-> 0, handler_ran |-> FALSE, db_failed |-> FALSE]

\* no direct call of the codec yet.  fn is the mint function called, with
\* its arguments and the two readings of the clock; verified says that
\* verify_token was then called on the token, with expected_type, at
\* clock at, and returned or raised out.
NoResult == [ok |-> FALSE, err |-> "", msg |-> "", payload |-> None]
NoCall ==
    [fn |-> "none", data |-> Data(None, None, None), expires_delta |-> None,
     t1 |-> 0, t2 |-> 0, token |-> None,
     verified |-> FALSE, expected_type |-> None, at |-> 0, out |-> NoResult]

\* no direct call of the hasher yet.  calls are the hash_password calls
\* in order, drawn the salts the generator has handed out, verify the
\* last verify_password call.
NoHash == [calls |-> <<>>, drawn |-> {}, verify |-> None]

\* AppException(code=, i18n_key=, params=, status_code=, detail=) as the
\* handler sends it: the status and the four fields of the payload.  An
\* argument that is left out is None; params is never passed.
AppError(code, i18n_key, status_code, detail) ==
    LET key == IF Truthy(i18n_key) THEN i18n_key[1] ELSE "errors." \o code
    IN  [kind |-> "AppException", status |-> status_code, code |-> code,
         i18n_key |-> key, params |-> {},
         message |-> IF Truthy(detail) THEN detail[1] ELSE key]
\* an exception of another class: the generic 500 response
ServerError(cls) ==
    [kind |-> cls, status |-> 500, code |-> "", i18n_key |-> "", params |-> {},
     message |-> "Internal Server Error"]
\* the service returned normally
Success == [kind |-> "ok", status |-> 200, code |-> "", i18n_key |-> "", params |-> {},
            message |-> ""]

\* no service call in progress.  pc is "idle", "flush" (create_user past
\* its email check, before db.flush) or "done" (the call has returned or
\* raised: outcome, and tokens when it returned)
NoSvc ==
    [pc |-> "idle", fn |-> "", email |-> "", password |-> "", role |-> "",
     outcome |-> Success, tokens |-> None, user |-> None]

\* settings.rate_limit_max_requests, settings.rate_limit_window_seconds
rate_limit_max_requests == 1000
rate_limit_window_seconds == 600
\* the addresses requests come from
ClientIps == {"10.0.0.1", "10.0.0.2"}
\* RateLimiter.__init__: no hits recorded.  clock is time.monotonic() and
\* log the is_allowed calls made so far, each with its address, its call
\* time and what it returned
RateLimiter(max_requests, window_seconds) ==
    [max_requests |-> max_requests, window |-> window_seconds,
     hits |-> [ip \in ClientIps |-> <<>>], clock |-> 0, log |-> <<>>]

\* no project yet; call is per client its create_project call
NoProjectCall == [pc |-> "idle", name |-> "", owner_id |-> 0, outcome |-> Success]
NoProjects == [table |-> <<>>, call |-> [c \in Clients |-> NoProjectCall]]

Init ==
    /\ now = 0
    /\ users = <<>>
    /\ held = [c \in Clients |-> None]
    /\ req = [c \in Clients |-> IdleReq]
    /\ codec = NoCall
    /\ hasher = NoHash
    /\ svc = [c \in Clients |-> NoSvc]
    /\ limiter = RateLimiter(rate_limit_max_requests, rate_limit_window_seconds)
    /\ proj = NoProjects

\* ------------------------------------------------------------ the directory
UserIds == 1 .. Len(users)
\* select(User).where(User.id == user_id) ... one_or_none()
FindById(tbl, id) == IF id \in 1 .. Len(tbl) THEN Some(tbl[id]) ELSE None
\* select(User).where(User.email == email, User.is_active)
ActiveByEmail(tbl, email) == {i \in 1 .. Len(tbl) : tbl[i].email = email /\ tbl[i].is_active}
\* get_by_public_id(db, User, public_id) with require_active
ActiveByPublicId(tbl, pid) == {i \in 1 .. Len(tbl) : tbl[i].public_id = pid /\ tbl[i].is_active}

\* ------------------------------------------------------------ the hasher
\* pwd_context = CryptContext(schemes=["bcrypt"]).  A stored digest text
\* is what bcrypt made of a salt and a secret, or some other text: scheme
\* is the scheme its prefix identifies ("" when none does), whole says
\* that the rest parses as a digest of that scheme.
Salts == {1}
Bcrypt(salt, password) ==
    [scheme |-> "bcrypt", whole |-> TRUE, salt |-> salt, password |-> password]
NoDigest == [scheme |-> "", whole |-> FALSE, salt |-> 0, password |-> ""]

\* plaintexts that contain a NUL character
NulPasswords == {"pw-nul-00"}
HasNul(p) == p \in NulPasswords

\* variant: the digest is made without a salt
hash_password_Unsalted(password, salt) ==
    IF HasNul(password)
    THEN [raised |-> TRUE, err |-> "PasswordValueError", val |-> NoDigest]
    ELSE [raised |-> FALSE, err |-> "", val |-> Bcrypt(0, password)]

\* hash_password(password) with the salt the generator hands out: bcrypt
\* refuses a secret that contains NUL
hash_password(password, salt) ==
    IF HasNul(password)
    THEN [raised |-> TRUE, err |-> "PasswordValueError", val |-> NoDigest]
    ELSE [raised |-> FALSE, err |-> "", val |-> Bcrypt(salt, password)]

\* verify_password(plain_password, hashed_password): the context
\* identifies the scheme of the digest, the handler parses it, then
\* recomputes the digest of the plaintext with the salt it carries
verify_password(plain_password, hashed_password) ==
    IF hashed_password.scheme # "bcrypt"
      THEN [raised |-> TRUE, err |-> "UnknownHashError", val |-> FALSE]
    ELSE IF ~hashed_password.whole
      THEN [raised |-> TRUE, err |-> "MalformedHashError", val |-> FALSE]
    ELSE IF HasNul(plain_password)
      THEN [raised |-> TRUE, err |-> "PasswordValueError", val |-> FALSE]
    ELSE [raised |-> FALSE, err |-> "",
          val |-> Bcrypt(hashed_password.salt, plain_password) = hashed_password]

\* str(n) of a natural number
DigitChar(n) ==
    CASE n = 0 -> "0" [] n = 1 -> "1" [] n = 2 -> "2" [] n = 3 -> "3" [] n = 4 -> "4"
      [] n = 5 -> "5" [] n = 6 -> "6" [] n = 7 -> "7" [] n = 8 -> "8" [] n = 9 -> "9"
RECURSIVE StrInt(_)
StrInt(n) == IF n < 10 THEN <<DigitChar(n)>> ELSE Append(StrInt(n \div 10), DigitChar(n % 10))

\* variant: the subject is the primary key
TokenPair_PrimaryKey(user, role, t1, t2, t3, t4) ==
    LET token_data == Data(Some(Str(StrInt(user.id))), Some(Str(role)), None)
    IN  [access_token |-> create_access_token(token_data, None, t1, t2),
         refresh_token |-> create_refresh_token(token_data, t3, t4)]

\* the token pair returned by create_user and get_login_user
TokenPair(user, role, t1, t2, t3, t4) ==
    LET token_data == Data(Some(Str(StrUuid(user.public_id))), Some(Str(role)), None)
    IN  [access_token |-> create_access_token(token_data, None, t1, t2),
         refresh_token |-> create_refresh_token(token_data, t3, t4)]

Holding(tok, origin, uid) == Some([tok |-> tok, minted |-> tok, origin |-> origin, uid |-> uid])

\* what a client keeps of a token pair
Keep(c, pair, take, origin, uid) ==
    IF req[c].pc = "idle"
    THEN [held EXCEPT ![c] = Holding(IF take = "access" THEN pair.access_token
                                     ELSE pair.refresh_token, origin, uid)]
    ELSE held

\* create_user(db, data) called by client c (the username column, which
\* nothing below reads, is left out).  A row with the same email
\* that is inactive passes the check and violates the unique constraint at
\* flush, which surfaces as INTERNAL_ERROR after rollback; like
\* EMAIL_ALREADY_REGISTERED that call changes nothing.
CreateUser(c, email, password, role, salt, take) ==
    /\ ActiveByEmail(users, email) = {}
    /\ \A i \in UserIds : users[i].email # email
    /\ Len(users) < Len(Uuid4)
    /\ ~hash_password(password, salt).raised
    /\ LET user == [id |-> Len(users) + 1, public_id |-> Uuid4[Len(users) + 1],
                    email |-> email,
                    hashed_password |-> hash_password(password, salt).val,
                    role |-> role, is_active |-> TRUE]
       IN  /\ users' = Append(users, user)
           /\ held' = Keep(c, TokenPair(user, role, now, now, now, now), take,
                           "create_user", user.id)
    /\ UNCHANGED <<now, req, codec, hasher, svc, limiter, proj>>

\* get_login_user(data, db) called by client c; a call that raises
\* INVALID_CREDENTIALS changes nothing
Login(c, email, password, take) ==
    /\ \E i \in ActiveByEmail(users, email) :
          /\ ~verify_password(password, users[i].hashed_password).raised
          /\ verify_password(password, users[i].hashed_password).val
          /\ held' = Keep(c, TokenPair(users[i], users[i].role, now, now, now, now),
                          take, "get_login_user", i)
    /\ UNCHANGED <<now, users, req, codec, hasher, svc, limiter, proj>>

\* delete_user(db, public_id): the active row is made inactive
DeleteUser(pid) ==
    /\ \E i \in ActiveByPublicId(users, pid) :
          users' = [users EXCEPT ![i].is_active = FALSE]
    /\ UNCHANGED <<now, held, req, codec, hasher, svc, limiter, proj>>

\* ---------------------------------------------------------- token holders
\* claims a caller hands to the codec directly
MintSubs == {None, Some(Str(<<"1">>)), Some(Str(<<"2">>))}
MintRoles == {None, Some(Str("")), Some(Str("admin"))}
MintTypes == {None}
MintDeltas == {None}

Untouched(c) == held[c] # None /\ held[c][1].tok = held[c][1].minted

\* a caller mints an access token; the clock may move between the two
\* reads of datetime.now
MintAccess(c, data, expires_delta, lag) ==
    /\ req[c].pc = "idle"
    /\ now + lag \in Instants
    /\ held' = [held EXCEPT ![c] =
                  Holding(create_access_token(data, expires_delta, now, now + lag),
                          "create_access_token", 0)]
    /\ now' = now + lag
    /\ UNCHANGED <<users, req, codec, hasher, svc, limiter, proj>>

MintRefresh(c, data, lag) ==
    /\ req[c].pc = "idle"
    /\ now + lag \in Instants
    /\ held' = [held EXCEPT ![c] =
                  Holding(create_refresh_token(data, now, now + lag),
                          "create_refresh_token", 0)]
    /\ now' = now + lag
    /\ UNCHANGED <<users, req, codec, hasher, svc, limiter, proj>>

\* positions and bits of the signature text a holder may alter: bit 0 is
\* the high bit of a character
TamperChars == {SigChars - 1, SigChars}
TamperBits == {5}

\* one character of the signature segment is replaced by another one
TamperSignature(c, pos, bit) ==
    /\ req[c].pc = "idle"
    /\ Untouched(c)
    /\ held' = [held EXCEPT ![c][1].tok.sig.flipped = {(pos - 1) * CharBits + bit}]
    /\ UNCHANGED <<now, users, req, codec, hasher, svc, limiter, proj>>

\* the role claim of the payload segment is rewritten, the signature kept
TamperPayload(c, role) ==
    /\ req[c].pc = "idle"
    /\ Untouched(c)
    /\ held[c][1].tok.claims.role # Some(role)
    /\ held' = [held EXCEPT ![c][1].tok.claims.role = Some(role)]
    /\ UNCHANGED <<now, users, req, codec, hasher, svc, limiter, proj>>

\* the header is rewritten to name another algorithm
TamperHeader(c, alg) ==
    /\ req[c].pc = "idle"
    /\ Untouched(c)
    /\ held' = [held EXCEPT ![c][1].tok.alg = alg]
    /\ UNCHANGED <<now, users, req, codec, hasher, svc, limiter, proj>>

\* the signature segment is cut off
Truncate(c) ==
    /\ req[c].pc = "idle"
    /\ Untouched(c)
    /\ held' = [held EXCEPT ![c][1].tok.segs = 2]
    /\ UNCHANGED <<now, users, req, codec, hasher, svc, limiter, proj>>

\* the client drops the token it holds
Discard(c) ==
    /\ req[c].pc = "idle"
    /\ held[c] # None
    /\ held' = [held EXCEPT ![c] = None]
    /\ UNCHANGED <<now, users, req, codec, hasher, svc, limiter, proj>>

Tick ==
    /\ \E t \in Instants : t > now /\ now' = t
    /\ UNCHANGED <<users, held, req, codec, hasher, svc, limiter, proj>>

\* ------------------------------------------- direct calls of the codec
\* claims and lifetimes handed to the mint functions
CallSubs == {None, Some(Str(<<"1">>))}
CallRoles == {None, Some(Str("admin")), Some(EnumMember("admin")), Some(DateTime(0))}
CallTypes == {None, Some(Str("access")), Some(Str("refresh"))}
CallDeltas == {None, Some(0), Some(0 - 60), Some(60)}
ExpectedTypes == {None, Some(""), Some("access"), Some("refresh")}

\* create_access_token(data, expires_delta) is called; the clock may move
\* between its two reads
AccessTokenCall(data, expires_delta, lag) ==
    /\ now + lag \in Instants
    /\ codec' = [NoCall EXCEPT !.fn = "create_access_token", !.data = data,
                    !.expires_delta = expires_delta, !.t1 = now, !.t2 = now + lag,
                    !.token = Some(create_access_token(data, expires_delta, now, now + lag))]
    /\ now' = now + lag
    /\ UNCHANGED <<users, held, req, hasher, svc, limiter, proj>>

\* create_refresh_token(data) is called
RefreshTokenCall(data, lag) ==
    /\ now + lag \in Instants
    /\ codec' = [NoCall EXCEPT !.fn = "create_refresh_token", !.data = data,
                    !.t1 = now, !.t2 = now + lag,
                    !.token = Some(create_refresh_token(data, now, now + lag))]
    /\ now' = now + lag
    /\ UNCHANGED <<users, held, req, hasher, svc, limiter, proj>>

\* verify_token(token, expected_type=expected_type) is called on the
\* token minted last
VerifyTokenCall(expected_type) ==
    /\ codec.token # None
    /\ codec' = [codec EXCEPT !.verified = TRUE, !.expected_type = expected_type,
                    !.at = now, !.out = verify_token(codec.token[1], expected_type, now)]
    /\ UNCHANGED <<now, users, held, req, hasher, svc, limiter, proj>>

CodecNext ==
    \/ \E sb \in CallSubs, r \in CallRoles, ty \in CallTypes, d \in CallDeltas,
          lag \in 0 .. MaxSkew : AccessTokenCall(Data(sb, r, ty), d, lag)
    \/ \E sb \in CallSubs, r \in CallRoles, ty \in CallTypes,
          lag \in 0 .. MaxSkew : RefreshTokenCall(Data(sb, r, ty), lag)
    \/ \E e \in ExpectedTypes : VerifyTokenCall(e)
    \/ Tick

CodecSpec == Init /\ [][CodecNext]_vars

\* ------------------------------------------ direct calls of the hasher
MaxHashCalls == 2     \* hash_password calls observed
SaltPool == 1 .. MaxHashCalls + 1
HashPlaintexts == Passwords \cup NulPasswords

\* texts that no hasher produced: the empty string, a plaintext stored
\* as it is, a bcrypt digest cut short
NotDigests == {NoDigest,
               [scheme |-> "", whole |-> FALSE, salt |-> 0, password |-> "pw-one-1"],
               [scheme |-> "bcrypt", whole |-> FALSE, salt |-> 1, password |-> "pw-one-1"]}
\* the digests hash_password has returned
Produced == {hasher.calls[i].out.val : i \in {j \in 1 .. Len(hasher.calls) : ~hasher.calls[j].out.raised}}

\* hash_password(password) is called; the salt is 128 bits of the system
\* generator, taken as a value not handed out before
HashPasswordCall(password, salt) ==
    /\ Len(hasher.calls) < MaxHashCalls
    /\ salt \notin hasher.drawn
    /\ hasher' = [hasher EXCEPT
                     !.calls = Append(@, [password |-> password,
                                          out |-> hash_password(password, salt)]),
                     !.drawn = @ \cup {salt}]
    /\ UNCHANGED <<now, users, held, req, codec, svc, limiter, proj>>

\* verify_password(plain_password, hashed_password) is called
VerifyPasswordCall(plain_password, hashed_password) ==
    /\ hasher' = [hasher EXCEPT !.verify =
                     Some([plain_password |-> plain_password,
                           hashed_password |-> hashed_password,
                           out |-> verify_password(plain_password, hashed_password)])]
    /\ UNCHANGED <<now, users, held, req, codec, svc, limiter, proj>>

HasherNext ==
    \/ \E p \in HashPlaintexts, s \in SaltPool : HashPasswordCall(p, s)
    \/ \E p \in HashPlaintexts, h \in Produced \cup NotDigests : VerifyPasswordCall(p, h)

HasherSpec == Init /\ [][HasherNext]_vars

\* ------------------------------------------------- a protected request
\* Authorization headers: a client that holds a token sends it as
\* "Bearer <token>"; one that holds none sends no header, or "Bearer" with
\* nothing after it
HeaderKinds == {"absent", "empty", "Bearer"}
Header(c, kind) ==
    IF kind = "absent" THEN None
    ELSE IF kind = "empty" THEN Some([scheme |-> "Bearer", param |-> None])
    ELSE Some([scheme |-> kind, param |-> Some(held[c][1].tok)])

\* A request to a project endpoint arrives: the security dependencies
\* are solved, then get_current_user runs up to the directory query.
Arrive(c, kind, st) ==
    /\ req[c].pc = "idle"
    /\ (kind = "Bearer") = (held[c] # None)
    /\ LET hdr == Header(c, kind)
           cr == HTTPBearer(hdr, st)
           oa == OAuth2PasswordBearer(hdr)
           g == GcuBeforeLookup(cr.val, oa.val, now)
           r0 == [IdleReq EXCEPT !.hdr = hdr]
       IN  req' = [req EXCEPT ![c] =
             IF cr.raised THEN [r0 EXCEPT !.pc = "failed", !.outcome = cr.exc]
             ELSE IF oa.raised THEN [r0 EXCEPT !.pc = "failed", !.outcome = oa.exc]
             ELSE IF g.raised
               THEN [r0 EXCEPT !.pc = "failed", !.outcome = g.exc,
                               !.nverify = g.verified, !.tverify = now]
             ELSE [r0 EXCEPT !.pc = "lookup", !.nverify = g.verified, !.tverify = now,
                             !.user_id = g.user_id, !.role = g.role]]
    /\ UNCHANGED <<now, users, held, codec, hasher, svc, limiter, proj>>

\* variant: the query also filters on is_active, as get_by_id does
Lookup_ActiveOnly(c) ==
    /\ req[c].pc = "lookup"
    /\ LET found == FindById(users, req[c].user_id)
           user == IF found # None /\ found[1].is_active THEN found ELSE None
           r1 == [req[c] EXCEPT !.nlookup = @ + 1, !.row = found]
       IN  req' = [req EXCEPT ![c] =
             IF user = None
               THEN [r1 EXCEPT !.pc = "failed", !.outcome = AppException("USER_NOT_FOUND", 401)]
             ELSE [r1 EXCEPT !.pc = "authed", !.outcome = Returned,
                             !.current_user = user,
                             !.current_role = Some(EffectiveRole(req[c].role, user[1]))]]
    /\ UNCHANGED <<now, users, held, codec, hasher, svc, limiter, proj>>

\* variant: the request state is filled in before the account checks
Lookup_StateFirst(c) ==
    /\ req[c].pc = "lookup"
    /\ LET user == FindById(users, req[c].user_id)
           r1 == [req[c] EXCEPT !.nlookup = @ + 1, !.row = user]
       IN  req' = [req EXCEPT ![c] =
             IF user = None
               THEN [r1 EXCEPT !.pc = "failed", !.outcome = AppException("USER_NOT_FOUND", 401)]
             ELSE IF ~user[1].is_active
               THEN [r1 EXCEPT !.pc = "failed", !.outcome = AppException("USER_INACTIVE", 403),
                               !.current_user = user,
                               !.current_role = Some(EffectiveRole(req[c].role, user[1]))]
             ELSE [r1 EXCEPT !.pc = "authed", !.outcome = Returned,
                             !.current_user = user,
                             !.current_role = Some(EffectiveRole(req[c].role, user[1]))]]
    /\ UNCHANGED <<now, users, held, codec, hasher, svc, limiter, proj>>

\* variant: the parsed user id is kept in a slot that the requests share,
\* so a request reads the id the other request stored while it waited
Lookup_SharedSlot(c) ==
    /\ req[c].pc = "lookup"
    /\ LET o == CHOOSE d \in Clients : d # c
           uid == IF req[o].pc = "lookup" THEN req[o].user_id ELSE req[c].user_id
           user == FindById(users, uid)
           r1 == [req[c] EXCEPT !.nlookup = @ + 1, !.row = user]
       IN  req' = [req EXCEPT ![c] =
             IF user = None
               THEN [r1 EXCEPT !.pc = "failed", !.outcome = AppException("USER_NOT_FOUND", 401)]
             ELSE IF ~user[1].is_active
               THEN [r1 EXCEPT !.pc = "failed", !.outcome = AppException("USER_INACTIVE", 403)]
             ELSE [r1 EXCEPT !.pc = "authed", !.outcome = Returned,
                             !.current_user = user,
                             !.current_role = Some(EffectiveRole(req[c].role, user[1]))]]
    /\ UNCHANGED <<now, users, held, codec, hasher, svc, limiter, proj>>

\* get_current_user resumes with the result of the directory query
Lookup(c) ==
    /\ req[c].pc = "lookup"
    /\ LET user == FindById(users, req[c].user_id)
           r1 == [req[c] EXCEPT !.nlookup = @ + 1, !.row = user]
       IN  req' = [req EXCEPT ![c] =
             IF user = None
               THEN [r1 EXCEPT !.pc = "failed", !.outcome = AppException("USER_NOT_FOUND", 401)]
             ELSE IF ~user[1].is_active
               THEN [r1 EXCEPT !.pc = "failed", !.outcome = AppException("USER_INACTIVE", 403)]
             ELSE [r1 EXCEPT !.pc = "authed", !.outcome = Returned,
                             !.current_user = user,
                             !.current_role = Some(EffectiveRole(req[c].role, user[1]))]]
    /\ UNCHANGED <<now, users, held, codec, hasher, svc, limiter, proj>>

\* variant: a catch-all clause reports the failed query as INVALID_TOKEN
LookupFails_AsInvalidToken(c) ==
    /\ req[c].pc = "lookup"
    /\ req' = [req EXCEPT ![c] =
                  [@ EXCEPT !.pc = "failed", !.nlookup = @ + 1, !.db_failed = TRUE,
                            !.outcome = AppException("INVALID_TOKEN", 401)]]
    /\ UNCHANGED <<now, users, held, codec, hasher, svc, limiter, proj>>

\* get_current_user resumes with the directory query raising (the
\* database cannot be reached): neither except clause matches, the
\* exception leaves the function
LookupFails(c) ==
    /\ req[c].pc = "lookup"
    /\ req' = [req EXCEPT ![c] =
                  [@ EXCEPT !.pc = "failed", !.nlookup = @ + 1, !.db_failed = TRUE,
                            !.outcome = Unhandled("OperationalError", "connection refused")]]
    /\ UNCHANGED <<now, users, held, codec, hasher, svc, limiter, proj>>

\* variant: the endpoint does not depend on get_current_user
Endpoint_Ungated(c) ==
    /\ req[c].pc \in {"authed", "failed"}
    /\ req' = [req EXCEPT ![c].pc = "handled", ![c].handler_ran = TRUE]
    /\ UNCHANGED <<now, users, held, codec, hasher, svc, limiter, proj>>

\* the endpoint body runs with the user get_current_user returned
Endpoint(c) ==
    /\ req[c].pc = "authed"
    /\ req' = [req EXCEPT ![c].pc = "handled", ![c].handler_ran = TRUE]
    /\ UNCHANGED <<now, users, held, codec, hasher, svc, limiter, proj>>

\* the response is sent; the request and its state are gone
Respond(c) ==
    /\ req[c].pc \in {"handled", "failed"}
    /\ req' = [req EXCEPT ![c] = IdleReq]
    /\ UNCHANGED <<now, users, held, codec, hasher, svc, limiter, proj>>

\* --------------------------------------------------------- specification
Next ==
    \/ \E c \in Serial, e \in Emails, p \in {"pw-one-1"}, r \in Roles,
          s \in Salts, k \in {"access", "refresh"} : CreateUser(c, e, p, r, s, k)
    \/ \E c \in Serial, e \in Emails, p \in Passwords, k \in {"access", "refresh"} :
          Login(c, e, p, k)
    \/ \E u \in UuidPool : DeleteUser(u)
    \/ \E c \in Serial, sb \in MintSubs, r \in MintRoles, ty \in MintTypes,
          d \in MintDeltas, lag \in 0 .. MaxSkew : MintAccess(c, Data(sb, r, ty), d, lag)
    \/ \E c \in Serial, sb \in MintSubs, r \in MintRoles, ty \in MintTypes,
          lag \in 0 .. MaxSkew : MintRefresh(c, Data(sb, r, ty), lag)
    \/ \E c \in Serial, pos \in TamperChars, bit \in TamperBits : TamperSignature(c, pos, bit)
    \/ \E c \in Serial : TamperPayload(c, "admin")
    \/ \E c \in Serial : TamperHeader(c, "none")
    \/ \E c \in Serial : Truncate(c)
    \/ \E c \in Serial : Discard(c)
    \/ Tick
    \/ \E c \in Serial, k \in HeaderKinds, st \in NotAuthenticatedStatus : Arrive(c, k, st)
    \/ \E c \in Serial : Lookup(c)
    \/ \E c \in Serial : Endpoint(c)
    \/ \E c \in Serial : Respond(c)

Spec == Init /\ [][Next]_vars

\* ------------------------------------------- calls of the user services
\* get_login_user(data, db) against the table tbl at clock t: what it
\* raises or returns; user is its local variable of that name
get_login_user(tbl, email, password, t) ==
    LET found == ActiveByEmail(tbl, email)
    IN  IF found = {}
        THEN [outcome |-> AppError("INVALID_CREDENTIALS", Some("errors.invalid_email_or_password"),
                                   401, Some("Invalid email or password")),
              tokens |-> None, user |-> None]
        ELSE LET i == CHOOSE j \in found : TRUE
                 v == verify_password(password, tbl[i].hashed_password)
             IN  IF v.raised
                 THEN [outcome |-> ServerError(v.err), tokens |-> None, user |-> Some(i)]
                 ELSE IF ~v.val
                 THEN [outcome |-> AppError("INVALID_CREDENTIALS", None,
                                            401, Some("Invalid email or password")),
                       tokens |-> None, user |-> Some(i)]
                 ELSE [outcome |-> Success,
                       tokens |-> Some(TokenPair(tbl[i], tbl[i].role, t, t, t, t)),
                       user |-> Some(i)]

\* get_login_user is called by client c and runs to its end
LoginCall(c, email, password) ==
    /\ svc[c].pc = "idle"
    /\ LET r == get_login_user(users, email, password, now)
       IN  svc' = [svc EXCEPT ![c] =
                     [pc |-> "done", fn |-> "get_login_user", email |-> email,
                      password |-> password, role |-> "",
                      outcome |-> r.outcome, tokens |-> r.tokens, user |-> r.user]]
    /\ UNCHANGED <<now, users, held, req, codec, hasher, limiter, proj>>

\* create_user is called by client c and runs to the await after its
\* email check: it raises EMAIL_ALREADY_REGISTERED when an active row has
\* the email, else goes on
CuBegin(c, email, password, role) ==
    /\ svc[c].pc = "idle"
    /\ svc' = [svc EXCEPT ![c] =
                  IF ActiveByEmail(users, email) # {}
                  THEN [NoSvc EXCEPT !.pc = "done", !.fn = "create_user", !.email = email,
                                     !.password = password, !.role = role,
                                     !.outcome = AppError("EMAIL_ALREADY_REGISTERED",
                                                          Some("errors.email_already_registered"),
                                                          409, Some("Email already registered"))]
                  ELSE [NoSvc EXCEPT !.pc = "flush", !.fn = "create_user", !.email = email,
                                     !.password = password, !.role = role]]
    /\ UNCHANGED <<now, users, held, req, codec, hasher, limiter, proj>>

\* create_user resumes: the row is built, flushed and committed and the
\* tokens are minted.  The insert violates the unique constraint on email
\* when any row, active or not, has the email; that error, like one of
\* hash_password, is caught by `except Exception`: rollback and
\* INTERNAL_ERROR
CuFlush(c, salt) ==
    /\ svc[c].pc = "flush"
    /\ LET h == hash_password(svc[c].password, salt)
           taken == \E i \in UserIds : users[i].email = svc[c].email
           user == [id |-> Len(users) + 1, public_id |-> Uuid4[Len(users) + 1],
                    email |-> svc[c].email, hashed_password |-> h.val,
                    role |-> svc[c].role, is_active |-> TRUE]
       IN  IF h.raised \/ taken
           THEN /\ svc' = [svc EXCEPT ![c].pc = "done",
                              ![c].outcome = AppError("INTERNAL_ERROR",
                                                      Some("errors.internal_server_error"),
                                                      500, Some("Internal server error"))]
                /\ users' = users
           ELSE /\ users' = Append(users, user)
                /\ svc' = [svc EXCEPT ![c].pc = "done", ![c].outcome = Success,
                              ![c].user = Some(user.id),
                              ![c].tokens = Some(TokenPair(user, svc[c].role, now, now, now, now))]
    /\ UNCHANGED <<now, held, req, codec, hasher, limiter, proj>>

\* the caller has the result of its call
SvcReturn(c) ==
    /\ svc[c].pc = "done"
    /\ svc' = [svc EXCEPT ![c] = NoSvc]
    /\ UNCHANGED <<now, users, held, req, codec, hasher, limiter, proj>>

ServiceNext ==
    \/ \E c \in Clients, e \in Emails : CuBegin(c, e, "pw-one-1", "default_user")
    \/ \E c \in Clients, sa \in Salts : CuFlush(c, sa)
    \/ \E c \in Clients, e \in Emails, p \in HashPlaintexts : LoginCall(c, e, p)
    \/ \E c \in Clients : SvcReturn(c)
    \/ \E u \in UuidPool : DeleteUser(u)

ServiceSpec == Init /\ [][ServiceNext]_vars

\* ---------------------------------------------------- the rate limiter
MaxLimit == 2        \* largest max_requests a limiter is built with
MaxWindow == 2       \* largest window_seconds a limiter is built with
MaxClock == 3        \* seconds of the monotonic clock observed
MaxLog == 4          \* is_allowed calls observed

\* is_allowed with `>` for `>=`
is_allowed_OffByOne(self, client_ip, t) ==
    LET timestamps == SelectSeq(self.hits[client_ip], LAMBDA x : t - x < self.window)
    IN  IF Len(timestamps) > self.max_requests
        THEN [allowed |-> FALSE, hits |-> [self.hits EXCEPT ![client_ip] = timestamps]]
        ELSE [allowed |-> TRUE,
              hits |-> [self.hits EXCEPT ![client_ip] = Append(timestamps, t)]]
\* RateLimiter.is_allowed(client_ip) at monotonic time t: the timestamps
\* of the address still inside the window are kept, the call is refused
\* when there are max_requests of them, else t is appended
is_allowed(self, client_ip, t) ==
    LET timestamps == SelectSeq(self.hits[client_ip], LAMBDA x : t - x < self.window)
    IN  IF Len(timestamps) >= self.max_requests
        THEN [allowed |-> FALSE, hits |-> [self.hits EXCEPT ![client_ip] = timestamps]]
        ELSE [allowed |-> TRUE,
              hits |-> [self.hits EXCEPT ![client_ip] = Append(timestamps, t)]]

\* the middleware asks the limiter about a request from client_ip
IsAllowedCall(client_ip) ==
    /\ Len(limiter.log) < MaxLog
    /\ LET r == is_allowed(limiter, client_ip, limiter.clock)
       IN  limiter' = [limiter EXCEPT
                         !.hits = r.hits,
                         !.log = Append(@, [ip |-> client_ip, t |-> limiter.clock,
                                            allowed |-> r.allowed])]
    /\ UNCHANGED <<now, users, held, req, codec, hasher, svc, proj>>

\* time.monotonic() moves on
MonotonicTick ==
    /\ limiter.clock < MaxClock
    /\ limiter' = [limiter EXCEPT !.clock = @ + 1]
    /\ UNCHANGED <<now, users, held, req, codec, hasher, svc, proj>>

\* a limiter built with any max_requests and window_seconds
RateInit ==
    /\ now = 0
    /\ users = <<>>
    /\ held = [c \in Clients |-> None]
    /\ req = [c \in Clients |-> IdleReq]
    /\ codec = NoCall
    /\ hasher = NoHash
    /\ svc = [c \in Clients |-> NoSvc]
    /\ limiter \in {RateLimiter(m, w) : m \in 1 .. MaxLimit, w \in 1 .. MaxWindow}
    /\ proj = NoProjects

RateNext ==
    \/ \E ip \in ClientIps : IsAllowedCall(ip)
    \/ MonotonicTick

RateSpec == RateInit /\ [][RateNext]_vars

\* ------------------------------------------------------- the projects
MaxProjects == 2     \* rows of the projects table observed
ProjectNames == {"alpha", "beta"}
ProjectIds == 1 .. Len(proj.table)
\* the users a request can be authenticated as
CurrentUsers == {i \in UserIds : users[i].is_active}
\* select(Project).where(name == .., owner_id == .., is_active)
ActiveNamed(tbl, name, owner_id) ==
    {i \in 1 .. Len(tbl) : tbl[i].name = name /\ tbl[i].owner_id = owner_id /\ tbl[i].is_active}
\* get_owned_project(public_id, db, user_id): the row position stands
\* for its public_id
get_owned_project(tbl, i, user_id) ==
    IF ~(i \in 1 .. Len(tbl) /\ tbl[i].is_active)
    THEN AppError("PROJECT_NOT_FOUND", Some("errors.PROJECT_not_found"), 404, Some("Project not found"))
    ELSE IF tbl[i].owner_id # user_id
    THEN AppError("PROJECT_NOT_FOUND", Some("errors.project_not_found"), 404, Some("Project not found"))
    ELSE Success

\* create_project is called by client c as current_user and runs to the
\* await after its name check
CpCheck(c, current_user, name) ==
    /\ proj.call[c].pc = "idle"
    /\ current_user \in CurrentUsers
    /\ proj' = [proj EXCEPT !.call[c] =
                  IF ActiveNamed(proj.table, name, current_user) # {}
                  THEN [pc |-> "done", name |-> name, owner_id |-> current_user,
                        outcome |-> AppError("PROJECT_NAME_EXISTS", Some("errors.project_name_exists"),
                                             409, Some("Project with this name already exists"))]
                  ELSE [pc |-> "insert", name |-> name, owner_id |-> current_user,
                        outcome |-> Success]]
    /\ UNCHANGED <<now, users, held, req, codec, hasher, svc, limiter>>

\* create_project resumes: the row is added and committed; the table has
\* no constraint on names
CpInsert(c) ==
    /\ proj.call[c].pc = "insert"
    /\ Len(proj.table) < MaxProjects
    /\ proj' = [proj EXCEPT
                  !.table = Append(@, [id |-> Len(proj.table) + 1, name |-> proj.call[c].name,
                                       owner_id |-> proj.call[c].owner_id, is_active |-> TRUE]),
                  !.call[c].pc = "done"]
    /\ UNCHANGED <<now, users, held, req, codec, hasher, svc, limiter>>

\* update_project(public_id, payload, db, current_user) by client c:
\* name and owner are the payload's fields, None when unset
UpdateProject(c, current_user, i, name, owner) ==
    /\ proj.call[c].pc = "idle"
    /\ current_user \in CurrentUsers
    /\ LET owned == get_owned_project(proj.table, i, current_user)
           outcome == IF owned # Success THEN owned
                      ELSE IF owner # None /\ owner[1] \notin CurrentUsers
                      THEN AppError("USER_NOT_FOUND", Some("errors.USER_not_found"),
                                    404, Some("User not found"))
                      ELSE Success
       IN  proj' = [proj EXCEPT
                     !.table = IF outcome # Success THEN @
                               ELSE [@ EXCEPT
                                       ![i].name = IF name = None THEN @ ELSE name[1],
                                       ![i].owner_id = IF owner = None THEN @ ELSE owner[1]],
                     !.call[c] = [pc |-> "done", name |-> "", owner_id |-> current_user,
                                  outcome |-> outcome]]
    /\ UNCHANGED <<now, users, held, req, codec, hasher, svc, limiter>>

\* delete_project(public_id, db, current_user) by client c
DeleteProject(c, current_user, i) ==
    /\ proj.call[c].pc = "idle"
    /\ current_user \in CurrentUsers
    /\ LET owned == get_owned_project(proj.table, i, current_user)
       IN  proj' = [proj EXCEPT
                     !.table = IF owned # Success THEN @ ELSE [@ EXCEPT ![i].is_active = FALSE],
                     !.call[c] = [pc |-> "done", name |-> "", owner_id |-> current_user,
                                  outcome |-> owned]]
    /\ UNCHANGED <<now, users, held, req, codec, hasher, svc, limiter>>

\* the caller has the result of its call
ProjectReturn(c) ==
    /\ proj.call[c].pc = "done"
    /\ proj' = [proj EXCEPT !.call[c] = NoProjectCall]
    /\ UNCHANGED <<now, users, held, req, codec, hasher, svc, limiter>>

ProjectNext ==
    \/ \E c \in Serial, e \in Emails : CreateUser(c, e, "pw-one-1", "default_user", 1, "access")
    \/ \E c \in Clients, u \in 1 .. 2, n \in ProjectNames : CpCheck(c, u, n)
    \/ \E c \in Clients : CpInsert(c)
    \/ \E c \in Clients, u \in 1 .. 2, i \in 1 .. MaxProjects,
          n \in {None} \cup {Some(x) : x \in ProjectNames},
          o \in {None, Some(1), Some(2)} : UpdateProject(c, u, i, n, o)
    \/ \E c \in Clients, u \in 1 .. 2, i \in 1 .. MaxProjects : DeleteProject(c, u, i)
    \/ \E c \in Clients : ProjectReturn(c)

ProjectSpec == Init /\ [][ProjectNext]_vars

\* ----------------------------------------------- concurrent requests
\* Two clients send requests that overlap: each get_current_user is
\* suspended at its directory query while the other runs.  The directory
\* may fail to answer.
ConcSubs == {Some(Str(<<"1">>)), Some(Str(<<"2">>))}
ConcRoles == {None, Some(Str("admin"))}

ConcNext ==
    \/ \E c \in Serial, e \in Emails : CreateUser(c, e, "pw-one-1", "default_user", 1, "access")
    \/ \E u \in UuidPool : DeleteUser(u)
    \/ \E c \in Clients, sb \in ConcSubs, r \in ConcRoles :
          MintAccess(c, Data(sb, r, None), None, 0)
    \/ \E c \in Clients : Arrive(c, "Bearer", 403)
    \/ \E c \in Clients : Lookup(c)
    \/ \E c \in Clients : LookupFails(c)
    \/ \E c \in Clients : Endpoint(c)
    \/ \E c \in Clients : Respond(c)

ConcSpec == Init /\ [][ConcNext]_vars

\* ------------------------------------------------------------ vocabulary
\* the request of client c carried a bearer token into get_current_user
Presented(c) ==
    /\ req[c].pc # "idle"
    /\ req[c].hdr # None
    /\ req[c].hdr[1].scheme = "Bearer"
    /\ req[c].hdr[1].param # None
\* get_current_user has run to its end for the request of c
Finished(c) == req[c].pc \in {"failed", "authed", "handled"}
\* the token in flight is the one the client holds, as the codec made it
Genuine(c) == Presented(c) /\ Untouched(c) /\ req[c].hdr[1].param = Some(held[c][1].tok)
\* issued to an account by create_user or get_login_user
IssuedTo(c) == held[c][1].origin \in {"create_user", "get_login_user"}
Claims(c) == held[c][1].tok.claims
Unexpired(c) == Claims(c).exp[1] >= req[c].tverify
Succeeded(c) == req[c].pc \in {"authed", "handled"} /\ req[c].outcome = Returned

\* ---------------------------------------------------------------- claims
\* C1 (as claimed): the access token that create_user or get_login_user
\* issued for a user that is active, presented unexpired, resolves to that
\* user with the role embedded in the token.
C1_RoundTrip ==
    \A c \in Clients :
        ( /\ Finished(c) /\ Genuine(c) /\ IssuedTo(c)
          /\ Claims(c).type = None
          /\ Unexpired(c)
          /\ users[held[c][1].uid].is_active )
        => /\ Succeeded(c)
           /\ req[c].current_user = Some(users[held[c][1].uid])
           /\ req[c].current_role = Claims(c).role

\* C2 (as claimed): a correctly signed token whose exp is in the past
\* makes get_current_user fail with TOKEN_EXPIRED / 401, and a token whose
\* exp is not yet reached never fails with the expiry failure.
C2_ExpiredIsTokenExpired ==
    \A c \in Clients :
        (Finished(c) /\ Genuine(c))
        => IF Unexpired(c)
           THEN req[c].outcome.code # "TOKEN_EXPIRED"
           ELSE req[c].outcome = AppException("TOKEN_EXPIRED", 401)

\* C3 (as claimed): a token minted by create_refresh_token never makes
\* get_current_user return a user nor populate the request state.
C3_RefreshNeverAccepted ==
    \A c \in Clients :
        (Genuine(c) /\ Claims(c).type = Some("refresh"))
        => /\ ~Succeeded(c)
           /\ req[c].current_user = None
           /\ req[c].current_role = None

\* the held token fails the structure, the algorithm or the signature
\* check: a segment is missing, the header names another algorithm, the
\* payload is not the signed one, or a digest bit of the signature differs
Defective(h) ==
    \/ h.tok.segs # 3
    \/ h.tok.alg # JwtAlgorithm
    \/ h.tok.claims # h.minted.claims
    \/ \E b \in h.tok.sig.flipped : b < DigestBits
\* a character of the signature segment is not the minted one
SignatureAltered(h) == h.tok.sig # h.minted.sig

InvalidTokenOnly(c) ==
    /\ req[c].pc = "failed"
    /\ req[c].outcome = AppException("INVALID_TOKEN", 401)
    /\ req[c].nverify = 1 /\ req[c].nlookup = 0

\* C4 (as claimed): every token that fails the structure, signature or
\* algorithm check, and every valid token with a character of its
\* signature segment altered, fails with INVALID_TOKEN / 401 and nothing
\* else.
C4_AnyAlteredCharInvalid ==
    \A c \in Clients :
        (Presented(c) /\ held[c] # None /\ req[c].hdr[1].param = Some(held[c][1].tok)
            /\ (Defective(held[c][1]) \/ SignatureAltered(held[c][1])))
        => InvalidTokenOnly(c)

\* C4 (amended): every token that fails the structure, signature or
\* algorithm check, a valid token whose signature segment was altered in
\* a bit that belongs to the digest included, fails with INVALID_TOKEN /
\* 401: never with the expiry, not-found or inactive failure, and never
\* with success.
C4_DefectiveInvalid ==
    \A c \in Clients :
        (Presented(c) /\ held[c] # None /\ req[c].hdr[1].param = Some(held[c][1].tok)
            /\ Defective(held[c][1]))
        => InvalidTokenOnly(c)

\* C4 witness: an expired token with a digest bit of its signature
\* flipped was presented and refused as INVALID_TOKEN.
C4_Witness ==
    \E c \in Clients :
        /\ Presented(c) /\ held[c] # None
        /\ held[c][1].tok.sig.flipped # {}
        /\ Defective(held[c][1])
        /\ held[c][1].tok.claims.exp[1] < req[c].tverify
        /\ InvalidTokenOnly(c)

\* C5 (as claimed): every invocation of get_current_user ends in success
\* or in an AppException with one of the five auth codes and its status.
C5_Totality ==
    \A c \in Clients :
        (Finished(c) /\ req[c].outcome.kind # "HTTPException")
        => \/ req[c].outcome = Returned
           \/ /\ req[c].outcome.kind = "AppException"
              /\ req[c].outcome.code \in AuthCodes
              /\ req[c].outcome.status = (IF req[c].outcome.code = "USER_INACTIVE" THEN 403 ELSE 401)

\* the sub claim of the token in flight, as a number
SubjectKey(c) == IntOf(req[c].hdr[1].param[1].claims.sub).val

\* C6: when get_current_user resumes from the directory query for a
\* verified, unexpired token whose subject parses as the key n, it fails
\* with USER_NOT_FOUND / 401 if the table has no row n, with
\* USER_INACTIVE / 403 if row n is inactive, and otherwise returns
\* exactly row n.
C6_LookupOutcome ==
    [][ \A c \in Clients :
          (req[c].pc = "lookup" /\ req'[c].pc # "lookup")
          => LET n == SubjectKey(c)
             IN  IF n \notin 1 .. Len(users)
                 THEN /\ req'[c].pc = "failed"
                      /\ req'[c].outcome = AppException("USER_NOT_FOUND", 401)
                 ELSE IF ~users[n].is_active
                 THEN /\ req'[c].pc = "failed"
                      /\ req'[c].outcome = AppException("USER_INACTIVE", 403)
                 ELSE /\ req'[c].pc = "authed"
                      /\ req'[c].outcome = Returned
                      /\ req'[c].current_user = Some(users[n])
                      /\ users[n].id = n ]_vars

\* C6 witness: a request was refused as USER_INACTIVE for the second row
\* of a table of two.
C6_Witness ==
    \E c \in Clients :
        /\ req[c].pc = "failed" /\ req[c].nlookup = 1
        /\ req[c].outcome = AppException("USER_INACTIVE", 403)
        /\ req[c].user_id = 2 /\ Len(users) = 2

\* C7 (as claimed): a request whose Authorization header is absent or
\* carries no token fails with MISSING_CREDENTIALS / 401, without a token
\* verification and without a directory query.
C7_MissingCredentials ==
    \A c \in Clients :
        (req[c].pc # "idle" /\ (req[c].hdr = None \/ req[c].hdr[1].param = None))
        => /\ req[c].outcome = AppException("MISSING_CREDENTIALS", 401)
           /\ req[c].nverify = 0 /\ req[c].nlookup = 0

\* C8: the endpoint body runs only from the state in which
\* get_current_user has returned for the same request; once a request has
\* failed nothing happens to it but its response, and no request sees a
\* second verification or directory query.
C8_HandlerAfterAuth ==
    [][ \A c \in Clients :
          /\ req'[c].handler_ran
               => /\ req'[c].outcome = Returned
                  /\ req'[c].current_user # None
                  /\ req'[c].nverify = 1 /\ req'[c].nlookup = 1
          /\ (~req[c].handler_ran /\ req'[c].handler_ran) => req[c].pc = "authed"
          /\ req[c].pc = "failed" => (req'[c] = req[c] \/ req'[c] = IdleReq)
          /\ req'[c].nverify <= 1 /\ req'[c].nlookup <= 1 ]_vars

\* C8 witness: an endpoint body has run.
C8_Witness ==
    \E c \in Clients : req[c].pc = "handled" /\ req[c].handler_ran

\* C9: request.state.current_user and current_role are set only when the
\* token of the request verified and the row read for it in this request
\* exists and is active, and then current_user is that row; on every
\* failure both are unset.
C9_ContextOnlyOnSuccess ==
    \A c \in Clients :
        /\ (req[c].current_user # None \/ req[c].current_role # None)
             => /\ Presented(c)
                /\ req[c].hdr[1].param = Some(held[c][1].tok)
                /\ ~Defective(held[c][1])
                /\ Unexpired(c)
                /\ req[c].nverify = 1 /\ req[c].nlookup = 1
                /\ req[c].row # None /\ req[c].row[1].is_active
                /\ req[c].current_user = req[c].row
                /\ req[c].current_role # None
        /\ req[c].outcome.kind \notin {"none", "ok"}
             => req[c].current_user = None /\ req[c].current_role = None

\* C9 witness: a request state holds a user, and the row it was read
\* from has been made inactive since.
C9_Witness ==
    \E c \in Clients :
        /\ req[c].current_user # None
        /\ ~users[req[c].current_user[1].id].is_active

\* C10 (as claimed): a request that starts after an account was made
\* inactive, with an unexpired access token issued for that account, goes
\* on to the directory query and is refused there as USER_INACTIVE / 403.
C10_InactiveRefused ==
    [][ \A c \in Clients :
          LET issued == /\ held[c] # None /\ Untouched(c) /\ IssuedTo(c)
                        /\ Claims(c).type = None
                        /\ req'[c].hdr = Some([scheme |-> "Bearer", param |-> Some(held[c][1].tok)])
                        /\ ~users[held[c][1].uid].is_active
          IN  /\ (req[c].pc = "idle" /\ req'[c].pc # "idle" /\ issued
                    /\ Claims(c).exp[1] >= now)
                 => req'[c].pc = "lookup"
              /\ (req[c].pc = "lookup" /\ req'[c].pc # "lookup" /\ issued)
                 => req'[c].outcome = AppException("USER_INACTIVE", 403) ]_vars

\* ------------------------------------------------- claims on the codec
\* the claims of the token minted by the last direct call
Minted == codec.token[1].claims
\* the token was not expired when verify_token was called on it
Live == Minted.exp[1] >= codec.at
TypeMismatch == [ok |-> FALSE, err |-> "ValueError", msg |-> "Invalid token type", payload |-> None]

C12_LifetimeExact ==
    (codec.fn = "create_access_token" /\ codec.expires_delta = None)
    => LET d == JwtDecode(codec.token[1], JwtSecretKey, codec.t2)
       IN  /\ d.ok
           /\ d.payload[1].exp[1] - d.payload[1].iat[1] = AccessTtl

ClaimKeys == {"sub", "role", "type"}
\* the keys the mint function writes itself, after the normalisation
Stamped(fn) == IF fn = "create_refresh_token" THEN {"exp", "iat", "type"} ELSE {"exp", "iat"}
\* what a str, Enum member or datetime value of the caller looks like in
\* the decoded claims
Primitive(x) ==
    IF x[1].py = "Enum" THEN Some(x[1].v)
    ELSE IF x[1].py = "datetime"
    THEN Some(CASE x[1].v = "0" -> "1970-01-01T00:00:00+00:00"
                [] x[1].v = ToString(AccessTtl) -> "1970-01-08T00:00:00+00:00")
    ELSE Some(x[1].v)

C14_RefreshStamped ==
    codec.fn = "create_refresh_token"
    => LET d == JwtDecode(codec.token[1], JwtSecretKey, codec.t2)
       IN  /\ d.ok
           /\ d.payload[1].type = Some("refresh")
           /\ d.payload[1].exp = Some(codec.t1 + RefreshTtl)
           /\ (codec.verified /\ Live /\ codec.expected_type \in {None, Some("refresh")})
                => codec.out = [ok |-> TRUE, err |-> "", msg |-> "", payload |-> d.payload]

\* C14 witness: a refresh token minted from a mapping with type =
\* "access", the clock moving inside the call, verified as a refresh
\* token.
C14_Witness ==
    /\ codec.fn = "create_refresh_token"
    /\ codec.data.type = Some(Str("access"))
    /\ codec.t2 > codec.t1
    /\ codec.verified /\ codec.expected_type = Some("refresh")
    /\ codec.out.ok /\ codec.out.payload[1].type = Some("refresh")

\* C15 (as claimed): no token minted by create_access_token has a type
\* claim, and none passes verify_token(expected_type = "refresh").
C15_AccessOmitsType ==
    codec.fn = "create_access_token"
    => /\ Minted.type = None
       /\ (codec.verified /\ codec.expected_type = Some("refresh")) => ~codec.out.ok

\* C16 (as claimed): every token minted by create_access_token, for
\* every expires_delta, or by create_refresh_token has exp > iat.
C16_ExpAfterIat ==
    codec.token # None => Minted.exp[1] > Minted.iat[1]

\* what verify_token raises for the minted token once it has expired
ExpiryFailure == verify_token(codec.token[1], None, Minted.exp[1] + 1)

\* C23 (as claimed): a type mismatch is raised by verify_token as a
\* failure of the invalid-token kind (JWTError, which get_current_user
\* maps to INVALID_TOKEN), and its kind differs from the kind of the
\* expiry failure.
C23_TypeMismatchKind ==
    (codec.verified /\ codec.out = TypeMismatch)
    => /\ codec.out.err = "JWTError"
       /\ ~ExpiryFailure.ok
       /\ codec.out.err # ExpiryFailure.err

\* C24 (as claimed): an unexpired token minted by create_access_token
\* from claims without a type key passes
\* verify_token(expected_type = "access"), which returns its claims.
C24_AccessImplicit ==
    (codec.verified /\ Live
       /\ codec.fn = "create_access_token" /\ codec.data.type = None
       /\ codec.expected_type = Some("access"))
    => /\ codec.out.ok
       /\ codec.out.payload = Some(Minted)

\* ---------------------------------------------- claims on the resolver
\* C17 (as claimed): on success the request state holds the row that was
\* read and, as role, the role claim of the token whenever the token has
\* one, the stored role of the row only when it has none.
C17_TokenRoleWins ==
    \A c \in Clients :
        Succeeded(c)
        => LET cl == req[c].hdr[1].param[1].claims
           IN  /\ req[c].current_user = req[c].row
               /\ req[c].current_role =
                    (IF cl.role # None THEN cl.role ELSE Some(req[c].row[1].role))

\* C18: every token issued by create_user or get_login_user has the text
\* of the account's public_id as sub; sub does not parse as the primary
\* key, and the other claims are the role, the type and the two clock
\* stamps: none is the primary key.
C18_SubjectIsPublicId ==
    \A c \in Clients :
        (held[c] # None /\ IssuedTo(c))
        => LET u == users[held[c][1].uid]
               cl == held[c][1].minted.claims
           IN  /\ cl.sub = Some(StrUuid(u.public_id))
               /\ cl.sub # Some(StrInt(u.id))
               /\ ~(IntOf(cl.sub).ok /\ IntOf(cl.sub).val = u.id)
               /\ cl.role \in {Some(r) : r \in Roles}
               /\ cl.role # Some(ToString(u.id))
               /\ cl.type \in {None, Some("refresh")}
               /\ cl.iat \in {Some(t) : t \in Instants}
               /\ cl.exp = Some(cl.iat[1] + (IF cl.type = None THEN AccessTtl ELSE RefreshTtl))

\* C18 witness: a client holds a token that get_login_user issued for
\* the account with primary key 2.
C18_Witness ==
    \E c \in Clients :
        /\ held[c] # None
        /\ held[c][1].origin = "get_login_user"
        /\ held[c][1].uid = 2
        /\ users[2].id = 2

\* C21: when the directory query of get_current_user raises, the request
\* ends with an exception that is no AppException and has none of the
\* auth codes, answered as a plain 500, and request.state.current_user and
\* current_role stay unset; the endpoint body does not run.
C21_OutageIsGeneric ==
    \A c \in Clients :
        req[c].db_failed
        => /\ req[c].pc = "failed"
           /\ req[c].outcome.kind \notin {"AppException", "HTTPException", "ok", "none"}
           /\ req[c].outcome.code \notin AuthCodes
           /\ req[c].outcome.status = 500
           /\ req[c].current_user = None /\ req[c].current_role = None
           /\ ~req[c].handler_ran

\* C21 witness: the query raised for a request whose token verified and
\* whose user is in the table and active.
C21_Witness ==
    \E c \in Clients :
        /\ req[c].db_failed /\ req[c].nverify = 1
        /\ req[c].user_id \in 1 .. Len(users)
        /\ users[req[c].user_id].is_active

\* the claims of the token the request of c carries
OwnClaims(c) == req[c].hdr[1].param[1].claims

\* C22: under every interleaving of two get_current_user invocations,
\* a step of one request leaves the state of the other request as it
\* is, and the request state a request ends up with holds the row read
\* for the sub of its own token and the role of its own token (the
\* stored role of that row when the token has none).
C22_RequestLocal ==
    [][ \A c \in Clients :
          /\ req'[c] # req[c] => \A d \in Clients \ {c} : req'[d] = req[d]
          /\ (req[c].pc = "lookup" /\ req'[c].pc = "authed")
               => LET n == IntOf(OwnClaims(c).sub).val
                  IN  /\ n \in 1 .. Len(users)
                      /\ req'[c].current_user = Some(users[n])
                      /\ req'[c].current_role =
                           (IF Truthy(OwnClaims(c).role) THEN OwnClaims(c).role
                            ELSE Some(users[n].role))
          /\ (req[c].pc \in {"authed", "handled"} /\ req'[c].pc # "idle")
               => /\ req'[c].current_user = req[c].current_user
                  /\ req'[c].current_role = req[c].current_role ]_vars

\* C22 witness: two requests are past get_current_user at the same time,
\* each holding its own user and its own role.
C22_Witness ==
    /\ req["c1"].pc = "authed" /\ req["c2"].pc = "authed"
    /\ req["c1"].current_user[1].id = 1 /\ req["c2"].current_user[1].id = 2
    /\ req["c1"].current_role = Some("admin")
    /\ req["c2"].current_role = Some("default_user")

\* ------------------------------------------ claims on the user services
\* rows of the table that are active, have the email, and whose stored
\* digest is one of the password
Matching(email, password) ==
    {i \in UserIds : /\ users[i].email = email /\ users[i].is_active
                     /\ users[i].hashed_password.scheme = "bcrypt"
                     /\ users[i].hashed_password.whole
                     /\ users[i].hashed_password.password = password}

\* C25 (as claimed): get_login_user returns tokens only when an active
\* row has the email and the password verifies against its digest, and
\* then tokens of that row; in every other case it fails with
\* INVALID_CREDENTIALS / 401 and mints nothing; it never changes the
\* table.
C25_LoginOnlyOnMatch ==
    [][ \A c \in Clients :
          (svc[c].pc = "idle" /\ svc'[c].pc = "done" /\ svc'[c].fn = "get_login_user")
          => LET m == Matching(svc'[c].email, svc'[c].password)
             IN  /\ users' = users
                 /\ IF m # {}
                    THEN /\ svc'[c].outcome = Success
                         /\ svc'[c].tokens # None
                         /\ svc'[c].user \in {Some(i) : i \in m}
                         /\ svc'[c].tokens[1].access_token.claims.sub
                              = Some(StrUuid(users[svc'[c].user[1]].public_id))
                    ELSE /\ svc'[c].tokens = None
                         /\ svc'[c].outcome.kind = "AppException"
                         /\ svc'[c].outcome.code = "INVALID_CREDENTIALS"
                         /\ svc'[c].outcome.status = 401 ]_vars

\* a login of c that failed with an AppException
LoginRefused(c) ==
    /\ svc[c].pc = "done" /\ svc[c].fn = "get_login_user"
    /\ svc[c].tokens = None /\ svc[c].outcome.kind = "AppException"

\* C26 (as claimed): a login refused because no active row has the email
\* and a login refused because the password is wrong get the same
\* response: status, code, i18n_key, params and message.
C26_SameRefusal ==
    \A c, d \in Clients :
        (LoginRefused(c) /\ svc[c].user = None /\ LoginRefused(d) /\ svc[d].user # None)
        => svc[c].outcome = svc[d].outcome

\* C27 (as claimed): under every interleaving of create_user calls no
\* two rows have the same email, and a call that did not persist a row
\* failed with EMAIL_ALREADY_REGISTERED / 409 and returned no tokens.
C27_OneWinnerOthers409 ==
    /\ \A i, j \in UserIds : users[i].email = users[j].email => i = j
    /\ \A c \in Clients :
          (svc[c].pc = "done" /\ svc[c].fn = "create_user" /\ svc[c].outcome # Success)
          => /\ svc[c].tokens = None
             /\ svc[c].outcome.code = "EMAIL_ALREADY_REGISTERED"
             /\ svc[c].outcome.status = 409

\* ------------------------------------------- claims on the rate limiter
\* the calls of the log for ip that returned True at a time in (t - w, t]
AllowedIn(log, ip, t, w) ==
    {k \in DOMAIN log : /\ log[k].ip = ip /\ log[k].allowed
                        /\ t - w < log[k].t /\ log[k].t <= t}
\* how often x occurs in seq
Occurrences(seq, x) == Cardinality({k \in DOMAIN seq : seq[k] = x})
\* the call a step appends to the log
LastCall == limiter'.log[Len(limiter'.log)]

\* for every address and instant, at most max_requests allowed calls in
\* the window that ends at the instant
C28_WindowBound ==
    \A ip \in ClientIps, t \in 0 .. MaxClock + MaxWindow :
        Cardinality(AllowedIn(limiter.log, ip, t, limiter.window)) <= limiter.max_requests

\* a refused call records nothing; a call leaves the hits of the other
\* addresses alone; and what a call returns is decided by the earlier
\* calls of its own address only
C28_CallStep ==
    Len(limiter'.log) = Len(limiter.log) + 1
    => /\ ~LastCall.allowed
          => \A x \in 0 .. MaxClock :
                Occurrences(limiter'.hits[LastCall.ip], x)
                  <= Occurrences(limiter.hits[LastCall.ip], x)
       /\ \A ip \in ClientIps \ {LastCall.ip} : limiter'.hits[ip] = limiter.hits[ip]
       /\ LastCall.allowed
            = (Cardinality(AllowedIn(limiter.log, LastCall.ip, LastCall.t, limiter.window))
                 < limiter.max_requests)

\* C28: sliding-window bound of RateLimiter: per address and instant t at
\* most max_requests calls returned True with call time in
\* (t - window_seconds, t]; a call that returns False records nothing;
\* calls for one address change neither the hits nor the outcome of
\* another.
C28_SlidingWindow == []C28_WindowBound /\ [][C28_CallStep]_vars

\* an address was refused with the window full, the other address was
\* served meanwhile, and the first was served again once the window slid
C28_Witness ==
    \E i, j, k \in DOMAIN limiter.log :
        /\ i < j /\ i < k
        /\ limiter.log[i].ip = limiter.log[j].ip
        /\ limiter.log[k].ip # limiter.log[i].ip /\ limiter.log[k].allowed
        /\ ~limiter.log[i].allowed /\ limiter.log[j].allowed
        /\ Cardinality(AllowedIn(limiter.log, limiter.log[i].ip, limiter.log[i].t, limiter.window))
             = limiter.max_requests

\* ---------------------------------------------- claims on the projects
\* no owner has two active projects with the same name
C29_NamesUniquePerOwner ==
    \A i, j \in ProjectIds :
        (/\ proj.table[i].is_active /\ proj.table[j].is_active
         /\ proj.table[i].owner_id = proj.table[j].owner_id
         /\ proj.table[i].name = proj.table[j].name) => i = j

\* a create_project whose name an active project of the caller has is
\* refused with PROJECT_NAME_EXISTS / 409 and adds nothing
C29_CreateRefused ==
    \A c \in Clients, u \in CurrentUsers, n \in ProjectNames :
        (CpCheck(c, u, n) /\ ActiveNamed(proj.table, n, u) # {})
        => /\ proj'.table = proj.table
           /\ proj'.call[c].pc = "done"
           /\ proj'.call[c].outcome.code = "PROJECT_NAME_EXISTS"
           /\ proj'.call[c].outcome.status = 409

\* C29 (as claimed): in every state reachable by interleaving
\* create_project and update_project calls no owner has two active
\* projects with the same name, and a create_project whose name an active
\* project of the caller already has fails with PROJECT_NAME_EXISTS / 409
\* and adds no project.
C29_NoDuplicateNames == []C29_NamesUniquePerOwner /\ [][C29_CreateRefused]_vars

\* ------------------------------------------------ claims on the hasher
HashCalls == 1 .. Len(hasher.calls)
Hashed(i) == ~hasher.calls[i].out.raised
VerifiedTrue == [raised |-> FALSE, err |-> "", val |-> TRUE]
VerifiedFalse == [raised |-> FALSE, err |-> "", val |-> FALSE]
\* verify_password was called with the plaintext and the digest of call i
VerifyOf(i) ==
    /\ hasher.verify # None
    /\ Hashed(i)
    /\ hasher.verify[1].plain_password = hasher.calls[i].password
    /\ hasher.verify[1].hashed_password = hasher.calls[i].out.val

C20_MalformedIsFalse ==
    (hasher.verify # None /\ hasher.verify[1].hashed_password \in NotDigests)
    => hasher.verify[1].out = VerifiedFalse

====
